---- MODULE Spec2Model ----
(***************************************************************************)
(* Model of the chat client's streaming core:                              *)
(*   - streamChat (frontend/src/api/sse.ts): the SSE decoder, modelled at  *)
(*     the level of bytes, text and event blocks (specification SpecSSE);  *)
(*   - ChatPage.vue: send, attachToolResult, loadHistory, ensureThreadId,  *)
(*     startNewConversation and the mount sequence, the transcript         *)
(*     reconciler (specification Spec).                                    *)
(* Bytes and characters are one-element names: "LF" is the newline, "SP"   *)
(* the space, "QUOTE" the double quote, "xC3" "xA9" the two bytes of the   *)
(* character "U+00E9", "U+FFFD" the replacement character.                 *)
(***************************************************************************)
EXTENDS Integers, Sequences, FiniteSets, TLC

VARIABLES
    \* ---- streamChat at byte level (SpecSSE) ----
    wire,       \* the bytes the server writes on the response body
    rpos,       \* how many of them reader.read() has handed out
    pending,    \* bytes of an incomplete character kept inside the TextDecoder
    buffer,     \* let buffer (text after the last complete delimiter)
    delivered,  \* the events passed to onEvent so far, in order
    sstate,     \* "reading" | "returned" ([DONE]) | "ended" (done) | "threw" | "off"
    \* ---- ChatPage.vue (Spec) ----
    messages,   \* messages.value: the visible transcript
    loading,    \* loading.value: the busy flag
    input,      \* input.value: the text box
    threadId,   \* threadId.value
    routeQuery, \* route.query.thread_id
    sends,      \* the activations of send(): position, placeholder, stream
    mount,      \* position of the onMounted sequence
    gen         \* ghost: counters (uuids made, resets, sends accepted, blocks read)

sseVars == <<wire, rpos, pending, buffer, delivered, sstate>>
pageVars == <<messages, loading, input, threadId, routeQuery, sends, mount, gen>>
vars == <<wire, rpos, pending, buffer, delivered, sstate,
          messages, loading, input, threadId, routeQuery, sends, mount, gen>>

-----------------------------------------------------------------------------
(* Bounds of the model *)

\* number of pieces a wire is written in (SpecSSE)
MaxPieces == 2
\* event blocks the server sends over all streams of a run (Spec)
MaxBlocks == 2
\* accepted sends and clicks on New in a run
MaxCalls == 2
\* event blocks the server sends while the page is followed from its
\* construction (SpecMount)
MaxTurn == 3

-----------------------------------------------------------------------------
(* Text helpers: the String methods the decoder uses, over character sequences *)

LF == "LF"
SP == "SP"
QUOTE == "QUOTE"
EACUTE == "U+00E9"
REPLACEMENT == "U+FFFD"

\* the characters String.prototype.trimEnd and the regex class \s remove
IsSpace(c) == c \in {SP, LF, "CR", "TAB"}

IsPrefixOf(p, s) ==
    /\ Len(p) <= Len(s)
    /\ SubSeq(s, 1, Len(p)) = p

\* d occurs in s at position i
MatchesAt(s, d, i) ==
    /\ i + Len(d) - 1 <= Len(s)
    /\ \A j \in 1..Len(d) : s[i + j - 1] = d[j]

RECURSIVE SplitAt(_, _, _, _)
\* s.split(d): leftmost, non-overlapping matches of the delimiter d; start is
\* where the part being collected begins, i the scan position
SplitAt(s, d, start, i) ==
    IF i > Len(s) THEN <<SubSeq(s, start, Len(s))>>
    ELSE IF MatchesAt(s, d, i)
         THEN <<SubSeq(s, start, i - 1)>> \o SplitAt(s, d, i + Len(d), i + Len(d))
         ELSE SplitAt(s, d, start, i + 1)

Split(s, d) == SplitAt(s, d, 1, 1)

RECURSIVE TrimEnd(_)
TrimEnd(s) ==
    IF s # <<>> /\ IsSpace(s[Len(s)]) THEN TrimEnd(SubSeq(s, 1, Len(s) - 1)) ELSE s

RECURSIVE TrimStart(_)
TrimStart(s) ==
    IF s # <<>> /\ IsSpace(s[1]) THEN TrimStart(Tail(s)) ELSE s

Trim(s) == TrimStart(TrimEnd(s))

DataPrefix == <<"d", "a", "t", "a", ":">>
DoneLiteral == <<"[", "D", "O", "N", "E", "]">>

\* line.replace(/^data:\s*/, "") on a line that starts with "data:"
StripDataPrefix(line) ==
    IF IsPrefixOf(DataPrefix, line)
    THEN TrimStart(SubSeq(line, Len(DataPrefix) + 1, Len(line)))
    ELSE line

-----------------------------------------------------------------------------
(* Values on the wire.  A JSON value that matters to the page is kept as a  *)
(* record; content values carry their JavaScript type.                      *)

Undef == [t |-> "undefined", s |-> ""]
NullV == [t |-> "null", s |-> ""]
Str(s) == [t |-> "string", s |-> s]
\* an array: [] when s is "", otherwise the one element that prints as s
Arr(s) == [t |-> "array", s |-> s]

\* ChatMsg with every optional field absent
NoMsg ==
    [type |-> "", content |-> Undef, run_id |-> "", tool_calls |-> <<>>,
     tool_call_id |-> "", custom_data |-> Undef]

\* what JSON.parse returns for a text that is no object: ev.type is undefined
JsonValue(canon) == [type |-> "", content |-> "", m |-> NoMsg, json |-> canon]

\* { type: "error", content: "Bad SSE payload" }
BadPayloadEvent ==
    [type |-> "error", content |-> "Bad SSE payload", m |-> NoMsg, json |-> <<>>]

NoEvent == [type |-> "", content |-> "", m |-> NoMsg, json |-> <<>>]

-----------------------------------------------------------------------------
(* JSON.parse over the characters the modelled wires are written in: digits *)
(* (with an exponent), strings without escapes, arrays of at most one       *)
(* element.  The result is the value's canonical text, <<>> for a           *)
(* SyntaxError.                                                             *)

IsDigits(t) == t # <<>> /\ \A i \in 1..Len(t) : t[i] \in {"1", "2"}

IsJsonNumber(t) ==
    \/ IsDigits(t)
    \/ \E k \in 1..Len(t) :
          /\ t[k] = "E"
          /\ IsDigits(SubSeq(t, 1, k - 1))
          /\ IsDigits(SubSeq(t, k + 1, Len(t)))

IsJsonString(t) ==
    /\ Len(t) >= 2
    /\ t[1] = QUOTE
    /\ t[Len(t)] = QUOTE
    /\ \A i \in 2..(Len(t) - 1) : t[i] \notin {QUOTE, LF, "CR", "TAB"}

RECURSIVE JsonCanon(_)
JsonCanon(text) ==
    LET t == Trim(text) IN
    IF IsJsonNumber(t) \/ IsJsonString(t) THEN t
    ELSE IF Len(t) >= 2 /\ t[1] = "[" /\ t[Len(t)] = "]"
         THEN LET inner == SubSeq(t, 2, Len(t) - 1) IN
              IF Trim(inner) = <<>> THEN <<"[", "]">>
              ELSE IF JsonCanon(inner) = <<>> THEN <<>>
                   ELSE <<"[">> \o JsonCanon(inner) \o <<"]">>
         ELSE <<>>

\* try { obj = JSON.parse(data) } catch { ... }
JSONParse(data) ==
    LET c == JsonCanon(data) IN
    IF c = <<>> THEN [ok |-> FALSE, ev |-> NoEvent]
    ELSE [ok |-> TRUE, ev |-> JsonValue(c)]

-----------------------------------------------------------------------------
(* new TextDecoder("utf-8").decode(value, { stream: true })                 *)

RECURSIVE Utf8At(_, _, _)
\* the decoder's loop over bytes[i..]; lead: a lead byte is waiting for its
\* continuation byte
Utf8At(lead, bytes, i) ==
    IF i > Len(bytes)
    THEN [chars |-> <<>>, pending |-> IF lead THEN <<"xC3">> ELSE <<>>]
    ELSE LET b == bytes[i] IN
         IF ~lead
         THEN IF b = "xC3" THEN Utf8At(TRUE, bytes, i + 1)
              ELSE LET r == Utf8At(FALSE, bytes, i + 1) IN
                   [r EXCEPT !.chars = <<IF b = "xA9" THEN REPLACEMENT ELSE b>> \o @]
         ELSE IF b = "xA9"
              THEN LET r == Utf8At(FALSE, bytes, i + 1) IN
                   [r EXCEPT !.chars = <<EACUTE>> \o @]
              ELSE LET r == Utf8At(FALSE, bytes, i) IN
                   [r EXCEPT !.chars = <<REPLACEMENT>> \o @]

\* UTF-8 decoding of bytes after the pending bytes pend
Utf8(pend, bytes) == Utf8At(pend # <<>>, bytes, 1)

\* a decoder that flushes at the end of every chunk (decode without stream: true)
TextDecode_NoStream(pend, bytes) ==
    LET r == Utf8(<<>>, bytes) IN
    [chars |-> r.chars \o (IF r.pending # <<>> THEN <<REPLACEMENT>> ELSE <<>>),
     pending |-> <<>>]

TextDecode(pend, bytes) == Utf8(pend, bytes)

-----------------------------------------------------------------------------
(* One event block, and the loop over the complete blocks of a chunk        *)

Outcome(kind, ev) == [kind |-> kind, ev |-> ev]

\* lines 39-54 for one chunk of buffer.split("\n\n"): what the block asks for
BlockOutcome(block) ==
    LET lines == [i \in 1..Len(Split(block, <<LF>>)) |->
                     TrimEnd(Split(block, <<LF>>)[i])]
        hits == {i \in 1..Len(lines) : IsPrefixOf(DataPrefix, lines[i])}
    IN  IF hits = {} THEN Outcome("nodata", NoEvent)
        ELSE LET line == lines[CHOOSE i \in hits : \A j \in hits : i <= j]
                 data == StripDataPrefix(line)
             IN  IF data = DoneLiteral THEN Outcome("done", NoEvent)
                 ELSE IF JSONParse(data).ok
                      THEN Outcome("event", JSONParse(data).ev)
                      ELSE Outcome("bad", NoEvent)

RECURSIVE RunBlocks_SkipDone(_)
\* [DONE] only skips its block
RunBlocks_SkipDone(outs) ==
    IF outs = <<>> THEN [events |-> <<>>, returned |-> FALSE]
    ELSE LET o == Head(outs)
             rest == RunBlocks_SkipDone(Tail(outs))
         IN  IF o.kind \in {"nodata", "done"} THEN rest
             ELSE [events |-> <<IF o.kind = "bad" THEN BadPayloadEvent ELSE o.ev>>
                                \o rest.events,
                   returned |-> rest.returned]

RECURSIVE RunBlocks_BadEnds(_)
\* a parse failure reports the error and leaves the loop
RunBlocks_BadEnds(outs) ==
    IF outs = <<>> THEN [events |-> <<>>, returned |-> FALSE]
    ELSE LET o == Head(outs) IN
         IF o.kind = "nodata" THEN RunBlocks_BadEnds(Tail(outs))
         ELSE IF o.kind = "done" THEN [events |-> <<>>, returned |-> TRUE]
         ELSE IF o.kind = "bad" THEN [events |-> <<BadPayloadEvent>>, returned |-> TRUE]
         ELSE LET rest == RunBlocks_BadEnds(Tail(outs)) IN
              [events |-> <<o.ev>> \o rest.events, returned |-> rest.returned]

RECURSIVE RunBlocks(_)
\* for (const chunk of chunks) { ... }: the events handed to onEvent, in
\* order, and whether the loop left streamChat through `return`
RunBlocks(outs) ==
    IF outs = <<>> THEN [events |-> <<>>, returned |-> FALSE]
    ELSE LET o == Head(outs) IN
         IF o.kind = "nodata" THEN RunBlocks(Tail(outs))
         ELSE IF o.kind = "done" THEN [events |-> <<>>, returned |-> TRUE]
         ELSE LET rest == RunBlocks(Tail(outs)) IN
              [events |-> <<IF o.kind = "bad" THEN BadPayloadEvent ELSE o.ev>>
                             \o rest.events,
               returned |-> rest.returned]

\* buffer = chunks.pop() || ""
KeepTail(parts) == parts[Len(parts)]

\* the body of while (true) after a read that returned bytes
ProcessChunk(pend, buf, bytes) ==
    LET dec == TextDecode(pend, bytes)
        parts == Split(buf \o dec.chars, <<LF, LF>>)
        blocks == SubSeq(parts, 1, Len(parts) - 1)
        run == RunBlocks([i \in 1..Len(blocks) |-> BlockOutcome(blocks[i])])
    IN  [pending |-> dec.pending, buffer |-> KeepTail(parts),
         events |-> run.events, returned |-> run.returned]


-----------------------------------------------------------------------------
(* The wires the byte-level specification reads: up to MaxPieces pieces,    *)
(* cut into chunks at any byte.                                             *)

Pieces ==
    { DataPrefix \o <<SP, "1", LF, LF>>,                   \* data: 1
      DataPrefix \o DoneLiteral \o <<LF, LF>>,             \* data:[DONE]
      DataPrefix \o <<SP, SP>> \o DoneLiteral \o <<LF, LF>>,   \* data:  [DONE]
      DataPrefix \o <<SP, "{", LF, LF>>,                   \* data: {   (no JSON)
      DataPrefix \o <<QUOTE, "xC3", "xA9", QUOTE, LF, LF>>,  \* a two-byte character
      <<"i", "d", LF>>,                                    \* a line that is no data line
      <<LF>>,
      DataPrefix \o <<SP, "2">> }                          \* a block left open

RECURSIVE WiresOf(_)
WiresOf(n) ==
    IF n = 0 THEN {<<>>}
    ELSE {w \o p : w \in WiresOf(n - 1), p \in Pieces}

Wires == UNION {WiresOf(n) : n \in 0..MaxPieces}

-----------------------------------------------------------------------------
(* streamChat, lines 24-56, one action per resumption of await reader.read() *)

\* reader.read() resolves with the next n bytes: lines 32-55
Read(n) ==
    /\ sstate = "reading"
    /\ rpos + n <= Len(wire)
    /\ LET r == ProcessChunk(pending, buffer, SubSeq(wire, rpos + 1, rpos + n)) IN
          /\ pending' = r.pending
          /\ buffer' = r.buffer
          /\ delivered' = delivered \o r.events
          /\ sstate' = IF r.returned THEN "returned" ELSE "reading"
    /\ rpos' = rpos + n
    /\ UNCHANGED <<wire, messages, loading, input, threadId, routeQuery, sends,
                   mount, gen>>

\* at the end of the body what is left in buffer is decoded as a last block
ReadDone_FlushesTail ==
    /\ sstate = "reading"
    /\ rpos = Len(wire)
    /\ sstate' = "ended"
    /\ delivered' = delivered \o RunBlocks(<<BlockOutcome(buffer)>>).events
    /\ UNCHANGED <<wire, rpos, pending, buffer, pageVars>>

\* reader.read() resolves with done: line 30
ReadDone ==
    /\ sstate = "reading"
    /\ rpos = Len(wire)
    /\ sstate' = "ended"
    /\ UNCHANGED <<wire, rpos, pending, buffer, delivered, pageVars>>

\* reader.read() rejects: the error leaves streamChat
ReadThrows ==
    /\ sstate = "reading"
    /\ sstate' = "threw"
    /\ UNCHANGED <<wire, rpos, pending, buffer, delivered, pageVars>>


-----------------------------------------------------------------------------
(* ChatPage.vue: the transcript                                             *)

ToolIds == {"x", "y"}

\* toolResults = {}: no key present
NoResults == [i \in ToolIds |-> Undef]

\* a UiMessage.  id (a uuid only the v-for key reads) is left out; a missing
\* toolCalls / toolResults reads like the empty one everywhere (lines 87, 91);
\* toolCalls keeps the ids of the calls.  ep is a ghost: the number of resets
\* that had happened when the request that produced the entry was made.
Entry(role, content, ep) ==
    [role |-> role, content |-> content, runId |-> "", toolCalls |-> <<>>,
     toolResults |-> NoResults, ep |-> ep]

\* JSON.stringify(v, null, 2) of the values the model sends
Stringify(v) ==
    CASE v.t = "array" -> IF v.s = "" THEN "[]" ELSE "[\n  " \o v.s \o "\n]"
      [] v.t = "null" -> "null"
      [] v.t = "string" -> "\"" \o v.s \o "\""
      [] OTHER -> ""

\* typeof v === "string" ? v : JSON.stringify(v, null, 2)
Display(v) == IF v.t = "string" THEN v.s ELSE Stringify(v)

\* JavaScript truthiness of a content value
Truthy(v) == v.t = "array" \/ (v.t = "string" /\ v.s # "")

\* the text of a character sequence
CharText(c) == IF c = SP THEN " " ELSE IF c = LF THEN "\n" ELSE c

RECURSIVE ToText(_)
ToText(cs) == IF cs = <<>> THEN "" ELSE CharText(Head(cs)) \o ToText(Tail(cs))

HasCall(e, id) == \E j \in 1..Len(e.toolCalls) : e.toolCalls[j] = id

RECURSIVE FindAi_Oldest(_, _, _)
\* the scan started at the oldest entry: i counts the entries still to visit
FindAi_Oldest(msgs, id, i) ==
    IF i = 0 THEN 0
    ELSE LET k == Len(msgs) - i + 1 IN
         IF msgs[k].role = "ai" /\ HasCall(msgs[k], id) THEN k
         ELSE FindAi_Oldest(msgs, id, i - 1)

RECURSIVE FindAi(_, _, _)
\* lines 84-89: for (let i = length - 1; i >= 0; i--), as a 1-based index;
\* 0 when the loop ends without a match
FindAi(msgs, id, i) ==
    IF i = 0 THEN 0
    ELSE IF msgs[i].role = "ai" /\ HasCall(msgs[i], id) THEN i
         ELSE FindAi(msgs, id, i - 1)

\* a result that matches no call is dropped
AttachToolResult_Drops(msgs, id, result, ep) ==
    LET k == FindAi(msgs, id, Len(msgs)) IN
    IF k > 0 THEN [msgs EXCEPT ![k].toolResults[id] = result] ELSE msgs

\* attachToolResult, lines 82-102, on messages.value
AttachToolResult(msgs, id, result, ep) ==
    LET k == FindAi(msgs, id, Len(msgs)) IN
    IF k > 0 THEN [msgs EXCEPT ![k].toolResults[id] = result]
    ELSE Append(msgs, Entry("tool", Display(result), ep))

-----------------------------------------------------------------------------
(* send's view of the page while it runs: h.msgs is messages.value, h.idx   *)
(* the place of aiPlaceholder in it (0 once the array was replaced under    *)
(* the send), h.obj the placeholder object when it is no longer in there.   *)

PhGet(h) == IF h.idx > 0 THEN h.msgs[h.idx] ELSE h.obj

\* the entry written is the first ai entry there is in the transcript
PhSet_FirstAi(h, e) ==
    LET ais == {i \in 1..Len(h.msgs) : h.msgs[i].role = "ai"} IN
    IF ais # {} THEN [h EXCEPT !.msgs[CHOOSE i \in ais : \A j \in ais : i <= j] = e]
    ELSE [h EXCEPT !.obj = e]

PhSet(h, e) ==
    IF h.idx > 0 THEN [h EXCEPT !.msgs[h.idx] = e] ELSE [h EXCEPT !.obj = e]

\* the token is put in front of what was accumulated
TokenAppended_InFront(e, ev) == [e EXCEPT !.content = ev.content \o @]

\* the token branch, lines 201-205
TokenAppended(e, ev) == [e EXCEPT !.content = @ \o ev.content]

\* the notice is assigned instead of appended
ErrorNoted_Replaces(e, ev) == [e EXCEPT !.content = "\n\n[Error] " \o ev.content]

\* the error branch, lines 207-210
ErrorNoted(e, ev) == [e EXCEPT !.content = @ \o "\n\n[Error] " \o ev.content]

\* the ai branch, lines 215-226
AiMerged(e, m) ==
    [e EXCEPT !.content = IF m.content.t = "string" /\ m.content.s # "" THEN m.content.s
                          ELSE IF Truthy(m.content) THEN Stringify(m.content)
                          ELSE @,
              !.runId = m.run_id,
              !.toolCalls = m.tool_calls]

\* the custom branch, lines 232-241
CustomEntry(m, ep) ==
    Entry("custom",
          IF m.custom_data.t = "string" THEN m.custom_data.s
          ELSE Stringify(IF m.custom_data.t \in {"undefined", "null"}
                         THEN m.content ELSE m.custom_data),
          ep)

\* a custom message is written into the placeholder instead of pushed
OnEvent_CustomMerges(h, ev, ep) ==
    IF ev.type = "token" THEN PhSet(h, TokenAppended(PhGet(h), ev))
    ELSE IF ev.type = "error" THEN PhSet(h, ErrorNoted(PhGet(h), ev))
    ELSE IF ev.type = "message"
    THEN IF ev.m.type = "ai" THEN PhSet(h, AiMerged(PhGet(h), ev.m))
         ELSE IF ev.m.type = "tool" /\ ev.m.tool_call_id # ""
         THEN [h EXCEPT !.msgs = AttachToolResult(h.msgs, ev.m.tool_call_id,
                                                  ev.m.content, ep)]
         ELSE IF ev.m.type = "custom"
         THEN PhSet(h, [PhGet(h) EXCEPT !.content = @ \o CustomEntry(ev.m, ep).content])
         ELSE h
    ELSE h

\* the callback given to streamChat, lines 200-243
OnEvent(h, ev, ep) ==
    IF ev.type = "token" THEN PhSet(h, TokenAppended(PhGet(h), ev))
    ELSE IF ev.type = "error" THEN PhSet(h, ErrorNoted(PhGet(h), ev))
    ELSE IF ev.type = "message"
    THEN IF ev.m.type = "ai" THEN PhSet(h, AiMerged(PhGet(h), ev.m))
         ELSE IF ev.m.type = "tool" /\ ev.m.tool_call_id # ""
         THEN [h EXCEPT !.msgs = AttachToolResult(h.msgs, ev.m.tool_call_id,
                                                  ev.m.content, ep)]
         ELSE IF ev.m.type = "custom"
         THEN [h EXCEPT !.msgs = Append(h.msgs, CustomEntry(ev.m, ep))]
         ELSE h
    ELSE h

\* the callback throws on ev before it has changed anything: ev.content is
\* null, so m.type at line 215 is a TypeError
Throws(ev) == ev.type = "message" /\ ev.m.type = "null"

RECURSIVE ApplyEvents(_, _, _)
\* onEvent called for every event of a chunk, in order; what the callback
\* throws is caught at sse.ts line 52 and the callback is called again with
\* the error event of line 53
ApplyEvents(h, evs, ep) ==
    IF evs = <<>> THEN h
    ELSE ApplyEvents(OnEvent(h, IF Throws(Head(evs)) THEN BadPayloadEvent ELSE Head(evs), ep),
                     Tail(evs), ep)


-----------------------------------------------------------------------------
(* What the server sends on a stream the page opens: event blocks, already  *)
(* framed; a read hands the decoder loop one or two of them.                *)

Token(c) == [type |-> "token", content |-> c, m |-> NoMsg, json |-> <<>>]
Message(m) == [type |-> "message", content |-> "", m |-> m, json |-> <<>>]
Ping == [type |-> "ping", content |-> "", m |-> NoMsg, json |-> <<>>]

HumanQ == [NoMsg EXCEPT !.type = "human", !.content = Str("q")]
AiFinal == [NoMsg EXCEPT !.type = "ai", !.content = Str("F"), !.run_id = "r1"]
AiCalls == [NoMsg EXCEPT !.type = "ai", !.content = Str(""), !.run_id = "r2",
                         !.tool_calls = <<"x", "y">>]
AiStruct == [NoMsg EXCEPT !.type = "ai", !.content = Arr("1"), !.tool_calls = <<"x">>]
AiEmptyList == [NoMsg EXCEPT !.type = "ai", !.content = Arr("")]
\* { type: "message", content: null }
NullContent == [NoMsg EXCEPT !.type = "null"]
ToolX == [NoMsg EXCEPT !.type = "tool", !.content = Str("R"), !.tool_call_id = "x"]
CustomC == [NoMsg EXCEPT !.type = "custom", !.custom_data = Str("C")]

WireBlocks ==
    { Outcome("event", Token("a")), Outcome("event", Token("b")),
      Outcome("bad", NoEvent), Outcome("done", NoEvent),
      Outcome("event", Message(AiFinal)), Outcome("event", Message(AiCalls)),
      Outcome("event", Message(AiStruct)), Outcome("event", Message(AiEmptyList)),
      Outcome("event", Message(ToolX)),
      Outcome("event", Message(CustomC)), Outcome("event", Ping) }

\* an agent's turn: text, the calls, a result, the answer, the sentinel
TurnBlocks ==
    { Outcome("event", Token("a")), Outcome("event", Message(AiCalls)),
      Outcome("event", Message(ToolX)), Outcome("event", Message(AiFinal)),
      Outcome("done", NoEvent) }

\* the events that reach the placeholder only, and those the callback has
\* no branch for: an unknown type, a role it does not handle, a Message
\* whose content is null
FrameBlocks ==
    { Outcome("event", Token("a")), Outcome("bad", NoEvent),
      Outcome("event", Message(AiFinal)), Outcome("event", Ping),
      Outcome("event", Message(HumanQ)), Outcome("event", Message(NullContent)) }

FrameChunks == {<<b>> : b \in FrameBlocks} \cup {<<b, c>> : b \in FrameBlocks, c \in FrameBlocks}

Chunks == {<<b>> : b \in WireBlocks} \cup {<<b, c>> : b \in WireBlocks, c \in WireBlocks}

\* the blocks of a chunk the loop looks at: those up to the first [DONE]
Looked(outs) ==
    LET dones == {i \in 1..Len(outs) : outs[i].kind = "done"} IN
    IF dones = {} THEN outs
    ELSE SubSeq(outs, 1, CHOOSE i \in dones : \A j \in dones : i <= j)

\* what /history answers
Histories == { <<>>, <<HumanQ, AiCalls, ToolX>> }

\* what /history answers while the page is followed from its construction:
\* also a message with structured content
MountHistories == Histories \cup { <<AiStruct>> }

\* what the user types into the box
Inputs == { <<SP, SP>>, <<SP, "h", "i", SP>> }

\* route.query.thread_id when the page is entered
Queries == { <<>>, <<SP, "t", "1">> }

\* crypto.randomUUID(): the n-th identifier made for a thread
Uuid(n) == <<"uuid", ToString(n)>>

-----------------------------------------------------------------------------
(* The activations of send()                                                *)

Slots == {1, 2}

\* pc: "idle" | "scroll" (await scrollToBottom, line 184) | "open" (await
\* fetch, line 12) | "read" (await reader.read(), line 29).  idx, obj: the
\* placeholder (see PhGet).  Ghosts: log, the blocks the decoder loop has
\* looked at; sep, the resets that had happened when the stream was opened;
\* made, the placeholders this send pushed; clears, how often it reset
\* loading.
IdleSend ==
    [pc |-> "idle", idx |-> 0, obj |-> Entry("ai", "", 0), log |-> <<>>, sep |-> 0,
     made |-> 0, clears |-> 0]

View(s) == [msgs |-> messages, idx |-> sends[s].idx, obj |-> sends[s].obj]

\* messages.value is replaced: a placeholder in the old array is no longer
\* in the visible one
Detach(snd, msgs) ==
    IF snd.idx > 0 THEN [snd EXCEPT !.obj = msgs[snd.idx], !.idx = 0] ELSE snd

PageInit ==
    /\ messages = <<>>
    /\ loading = FALSE
    /\ input = <<>>
    /\ threadId = <<>>
    /\ sends = [s \in Slots |-> IdleSend]
    /\ mount = [pc |-> "init", ep |-> 0]
    /\ gen = [uuids |-> 0, resets |-> 0, sends |-> 0, blocks |-> 0]

\* v-model="input"
Type(t) ==
    /\ sstate = "off"
    /\ input' = t
    /\ UNCHANGED <<messages, loading, threadId, routeQuery, sends, mount, gen, sseVars>>

\* line 163 without the test of loading
SendRejects_IgnoresLoading == Trim(input) = <<>>

\* line 163: if (!text || loading.value) return
SendRejects == Trim(input) = <<>> \/ loading

\* send(), lines 161-184, up to its first await
Send ==
    /\ sstate = "off"
    /\ IF SendRejects
       THEN UNCHANGED <<messages, loading, input, threadId, routeQuery, sends, mount, gen>>
       ELSE /\ gen.sends + gen.resets < MaxCalls
            /\ \E s \in Slots :
                  /\ sends[s].pc = "idle"
                  /\ \A t \in Slots : sends[t].pc = "idle" => s <= t
                  /\ messages' = messages \o
                        << Entry("human", ToText(Trim(input)), gen.resets),
                           Entry("ai", "", gen.resets) >>
                  /\ sends' = [sends EXCEPT ![s] =
                                  [IdleSend EXCEPT !.pc = "scroll",
                                                   !.idx = Len(messages) + 2,
                                                   !.made = 1]]
            /\ loading' = TRUE
            /\ input' = <<>>
            /\ gen' = [gen EXCEPT !.sends = @ + 1]
            /\ UNCHANGED <<threadId, routeQuery, mount>>
    /\ UNCHANGED sseVars

\* lines 186-200 and sse.ts line 12: the request is made
SendOpen(s) ==
    /\ sends[s].pc = "scroll"
    /\ sends' = [sends EXCEPT ![s].pc = "open", ![s].sep = gen.resets]
    /\ UNCHANGED <<messages, loading, input, threadId, routeQuery, mount, gen, sseVars>>

\* the catch block is skipped by the final step
Settle_NoFinally(s, h, failed, msg) ==
    LET ph == PhGet(h)
        h2 == IF failed
              THEN PhSet(h, [ph EXCEPT !.content = @ \o "\n\n[Stream Failed] " \o msg])
              ELSE h
    IN  /\ messages' = h2.msgs
        /\ loading' = IF failed THEN loading ELSE FALSE
        /\ sends' = [sends EXCEPT ![s] =
                        [IdleSend EXCEPT !.made = sends[s].made,
                                         !.clears = sends[s].clears +
                                                    (IF failed THEN 0 ELSE 1)]]

\* the catch block assigns the notice instead of appending it
Settle_NoticeReplaces(s, h, failed, msg) ==
    LET ph == PhGet(h)
        h2 == IF failed
              THEN PhSet(h, [ph EXCEPT !.content = "\n\n[Stream Failed] " \o msg])
              ELSE h
    IN  /\ messages' = h2.msgs
        /\ loading' = FALSE
        /\ sends' = [sends EXCEPT ![s] =
                        [IdleSend EXCEPT !.made = sends[s].made,
                                         !.clears = sends[s].clears + 1]]

\* lines 245-251: how send leaves try / catch / finally, from the page h
Settle(s, h, failed, msg) ==
    LET ph == PhGet(h)
        h2 == IF failed
              THEN PhSet(h, [ph EXCEPT !.content = @ \o "\n\n[Stream Failed] " \o msg])
              ELSE h
    IN  /\ messages' = h2.msgs
        /\ loading' = FALSE
        /\ sends' = [sends EXCEPT ![s] =
                        [IdleSend EXCEPT !.made = sends[s].made,
                                         !.clears = sends[s].clears + 1]]

\* sse.ts lines 19-24: the response is usable
FetchOk(s) ==
    /\ sends[s].pc = "open"
    /\ sends' = [sends EXCEPT ![s].pc = "read"]
    /\ UNCHANGED <<messages, loading, input, threadId, routeQuery, mount, gen, sseVars>>

\* sse.ts lines 19-22: !res.ok || !res.body (or fetch itself rejects)
FetchFails(s) ==
    /\ sends[s].pc = "open"
    /\ Settle(s, View(s), TRUE, "Stream failed: 500 ")
    /\ UNCHANGED <<input, threadId, routeQuery, mount, gen, sseVars>>

\* sse.ts lines 29-55 for one read that returns blocks, of at most max sent
ReadChunk(s, chunk, max) ==
    /\ sends[s].pc = "read"
    /\ gen.blocks + Len(chunk) <= max
    /\ gen' = [gen EXCEPT !.blocks = @ + Len(chunk)]
    /\ LET run == RunBlocks(chunk)
           h == ApplyEvents(View(s), run.events, sends[s].sep)
       IN  IF run.returned
           THEN /\ Settle(s, h, FALSE, "")
           ELSE /\ messages' = h.msgs
                /\ sends' = [sends EXCEPT ![s].obj = h.obj,
                                          ![s].log = @ \o Looked(chunk)]
                /\ UNCHANGED loading
    /\ UNCHANGED <<input, threadId, routeQuery, mount, sseVars>>

StreamRead(s, chunk) == ReadChunk(s, chunk, MaxBlocks)

\* a read that returns one block of an agent's turn
TurnRead(s, b) == ReadChunk(s, <<b>>, MaxTurn)

\* the end of the body without [DONE] is thrown as an error
StreamEnd_AsFailure(s) ==
    /\ sends[s].pc = "read"
    /\ Settle(s, View(s), TRUE, "Stream ended without [DONE]")
    /\ UNCHANGED <<input, threadId, routeQuery, mount, gen, sseVars>>

\* a read of blocks that concern the placeholder or nothing
FrameRead(s, chunk) == ReadChunk(s, chunk, MaxBlocks)

\* sse.ts line 30: done, streamChat returns
StreamEnd(s) ==
    /\ sends[s].pc = "read"
    /\ Settle(s, View(s), FALSE, "")
    /\ UNCHANGED <<input, threadId, routeQuery, mount, gen, sseVars>>

\* sse.ts line 29: reader.read() rejects
StreamThrows(s) ==
    /\ sends[s].pc = "read"
    /\ Settle(s, View(s), TRUE, "network error")
    /\ UNCHANGED <<input, threadId, routeQuery, mount, gen, sseVars>>

\* startNewConversation, lines 149-154
StartNewConversation ==
    /\ sstate = "off"
    /\ gen.sends + gen.resets < MaxCalls
    /\ messages' = <<>>
    /\ threadId' = Uuid(gen.uuids + 1)
    /\ routeQuery' = Uuid(gen.uuids + 1)
    /\ sends' = [s \in Slots |-> Detach(sends[s], messages)]
    /\ gen' = [gen EXCEPT !.resets = @ + 1, !.uuids = @ + 1]
    /\ UNCHANGED <<loading, input, mount, sseVars>>

-----------------------------------------------------------------------------
(* onMounted, lines 254-264                                                 *)

\* the query is not looked at: an identifier is always made
MountEnsure_IgnoresQuery ==
    /\ sstate = "off"
    /\ mount.pc = "init"
    /\ threadId' = Uuid(gen.uuids + 1)
    /\ routeQuery' = Uuid(gen.uuids + 1)
    /\ gen' = [gen EXCEPT !.uuids = @ + 1]
    /\ mount' = [pc |-> "history", ep |-> gen.resets]
    /\ UNCHANGED <<messages, loading, input, sends, sseVars>>

\* ensureThreadId, lines 116-126, and the request loadHistory makes right
\* after it (lines 130-133)
MountEnsure ==
    /\ sstate = "off"
    /\ mount.pc = "init"
    /\ IF Trim(routeQuery) # <<>>
       THEN /\ threadId' = Trim(routeQuery)
            /\ UNCHANGED <<routeQuery, gen>>
       ELSE /\ threadId' = Uuid(gen.uuids + 1)
            /\ routeQuery' = Uuid(gen.uuids + 1)
            /\ gen' = [gen EXCEPT !.uuids = @ + 1]
    /\ mount' = [pc |-> "history", ep |-> gen.resets]
    /\ UNCHANGED <<messages, loading, input, sends, sseVars>>

\* toUiMessage, lines 70-80
ToUiMessage(m, ep) ==
    [role |-> m.type, content |-> Display(m.content), runId |-> m.run_id,
     toolCalls |-> m.tool_calls, toolResults |-> NoResults, ep |-> ep]

\* const ui = [] ... ui.push(toUiMessage(m)), lines 135-138
Loaded(hist, ep) == [i \in 1..Len(hist) |-> ToUiMessage(hist[i], ep)]

RECURSIVE HistoryAttach(_, _, _)
\* the calls of attachToolResult lines 141-143 make, on messages.value
HistoryAttach(msgs, hist, ep) ==
    IF hist = <<>> THEN msgs
    ELSE LET m == Head(hist) IN
         HistoryAttach(IF m.type = "tool" /\ m.tool_call_id # ""
                       THEN AttachToolResult(msgs, m.tool_call_id, m.content, ep)
                       ELSE msgs,
                       Tail(hist), ep)

\* the loaded entries are pushed behind the entries there are
LoadHistory_Appends(hist) ==
    /\ mount.pc = "history"
    /\ messages' = messages \o Loaded(hist, mount.ep)
    /\ sends' = [s \in Slots |->
                    Detach(sends[s], HistoryAttach(messages, hist, mount.ep))]
    /\ mount' = [mount EXCEPT !.pc = "done"]
    /\ UNCHANGED <<loading, input, threadId, routeQuery, gen, sseVars>>

\* loadHistory, lines 135-146, once /history has answered
LoadHistory(hist) ==
    /\ mount.pc = "history"
    /\ messages' = Loaded(hist, mount.ep)
    /\ sends' = [s \in Slots |->
                    Detach(sends[s], HistoryAttach(messages, hist, mount.ep))]
    /\ mount' = [mount EXCEPT !.pc = "done"]
    /\ UNCHANGED <<loading, input, threadId, routeQuery, gen, sseVars>>

\* apiFetch rejects: onMounted ends there
LoadHistoryFails ==
    /\ mount.pc = "history"
    /\ mount' = [mount EXCEPT !.pc = "done"]
    /\ UNCHANGED <<messages, loading, input, threadId, routeQuery, sends, gen, sseVars>>

-----------------------------------------------------------------------------
(* Specifications                                                           *)

SSEOff ==
    /\ wire = <<>> /\ rpos = 0 /\ pending = <<>> /\ buffer = <<>>
    /\ delivered = <<>> /\ sstate = "off"

\* the page once onMounted has finished, entered without a thread_id
Init ==
    /\ \E hist \in Histories : messages = Loaded(hist, 0)
    /\ loading = FALSE
    /\ input = <<>>
    /\ threadId = Uuid(1)
    /\ routeQuery = Uuid(1)
    /\ sends = [s \in Slots |-> IdleSend]
    /\ mount = [pc |-> "done", ep |-> 0]
    /\ gen = [uuids |-> 1, resets |-> 0, sends |-> 0, blocks |-> 0]
    /\ SSEOff

\* what the user and the network do to a mounted page
Next ==
    \/ \E t \in Inputs : Type(t)
    \/ Send
    \/ \E s \in Slots : SendOpen(s)
    \/ \E s \in Slots : FetchOk(s)
    \/ \E s \in Slots : FetchFails(s)
    \/ \E s \in Slots, chunk \in Chunks : StreamRead(s, chunk)
    \/ \E s \in Slots : StreamEnd(s)
    \/ \E s \in Slots : StreamThrows(s)
    \/ StartNewConversation

Spec == Init /\ [][Next]_vars

\* streamChat alone, reading one wire
InitSSE ==
    /\ PageInit
    /\ routeQuery = <<>>
    /\ wire \in Wires
    /\ rpos = 0 /\ pending = <<>> /\ buffer = <<>>
    /\ delivered = <<>> /\ sstate = "reading"

NextSSE ==
    \/ \E n \in 1..(Len(wire) - rpos) : Read(n)
    \/ ReadDone
    \/ ReadThrows

SpecSSE == InitSSE /\ [][NextSSE]_vars

\* the mounted page on streams of FrameBlocks
NextFrame ==
    \/ \E t \in Inputs : Type(t)
    \/ Send
    \/ \E s \in Slots : SendOpen(s)
    \/ \E s \in Slots : FetchOk(s)
    \/ \E s \in Slots : FetchFails(s)
    \/ \E s \in Slots, chunk \in FrameChunks : FrameRead(s, chunk)
    \/ \E s \in Slots : StreamEnd(s)
    \/ \E s \in Slots : StreamThrows(s)
    \/ StartNewConversation

SpecFrame == Init /\ [][NextFrame]_vars

\* the page from its construction: onMounted interleaved with the user
InitMount ==
    /\ PageInit
    /\ routeQuery \in Queries
    /\ SSEOff

NextMount ==
    \/ \E t \in Inputs : Type(t)
    \/ Send
    \/ \E s \in Slots : SendOpen(s)
    \/ \E s \in Slots : FetchOk(s)
    \/ \E s \in Slots : FetchFails(s)
    \/ \E s \in Slots, b \in TurnBlocks : TurnRead(s, b)
    \/ \E s \in Slots : StreamEnd(s)
    \/ \E s \in Slots : StreamThrows(s)
    \/ StartNewConversation
    \/ MountEnsure
    \/ \E hist \in MountHistories : LoadHistory(hist)
    \/ LoadHistoryFails

SpecMount == InitMount /\ [][NextMount]_vars


-----------------------------------------------------------------------------
(* Properties of streamChat (SpecSSE)                                       *)

\* the text of the first n bytes of the wire
TextOf(n) == Utf8(<<>>, SubSeq(wire, 1, n)).chars

\* what each block closed by a blank line within the first n bytes asks for
ClosedBlocks(n) ==
    LET parts == Split(TextOf(n), <<LF, LF>>) IN
    [i \in 1..(Len(parts) - 1) |-> BlockOutcome(parts[i])]

\* the index of the first [DONE] block among outs, Len(outs) + 1 if none
FirstDone(outs) ==
    LET dones == {i \in 1..Len(outs) : outs[i].kind = "done"} IN
    IF dones = {} THEN Len(outs) + 1
    ELSE CHOOSE i \in dones : \A j \in dones : i <= j

CarriesData(o) == o.kind \in {"event", "bad"}

\* the blocks with a data line that precede the first [DONE] block
DataBefore(outs) == SelectSeq(SubSeq(outs, 1, FirstDone(outs) - 1), CarriesData)

IsPrefixSeq(p, q) == Len(p) <= Len(q) /\ SubSeq(q, 1, Len(p)) = p

\* C1: however the wire is cut into chunks, onEvent receives the events the
\* wire gives when it arrives as one chunk (never more, and in the same
\* order), and streamChat stops where the one-chunk run stops: by the same
\* [DONE] or at the end of the body.
C1_ChunkIndependent ==
    LET whole == ProcessChunk(<<>>, <<>>, wire) IN
    /\ IsPrefixSeq(delivered, whole.events)
    /\ sstate = "returned" => whole.returned /\ delivered = whole.events
    /\ sstate = "ended" => ~whole.returned /\ delivered = whole.events

\* the wire was cut inside a two-byte character and inside "data:", and the
\* character still arrived whole in the event delivered at the end
C1_Witness ==
    /\ sstate = "ended"
    /\ delivered = <<JsonValue(<<"1">>), JsonValue(<<QUOTE, EACUTE, QUOTE>>)>>

\* C2: streamChat has returned early exactly when a block whose payload is
\* [DONE] has been read completely; the events delivered are then those of
\* the blocks before that block, in order, and none of that block or of any
\* block after it, also when such blocks were read with it or bytes remain.
C2_SentinelEnds ==
    LET outs == ClosedBlocks(rpos)
        k == FirstDone(outs)
    IN  /\ (sstate = "returned") <=> (k <= Len(outs))
        /\ sstate = "returned" =>
              /\ Len(delivered) = Len(DataBefore(outs))
              /\ \A i \in 1..Len(delivered) :
                    delivered[i] = (IF DataBefore(outs)[i].kind = "bad"
                                    THEN BadPayloadEvent ELSE DataBefore(outs)[i].ev)

\* [DONE] was read together with a complete event block that follows it
C2_Witness ==
    LET outs == ClosedBlocks(rpos) IN
    /\ sstate = "returned"
    /\ \E i \in 1..Len(outs) : i > FirstDone(outs) /\ outs[i].kind = "event"
    /\ delivered = <<>>

\* C3: every block before the sentinel that has a data line yields exactly
\* one event: the fixed error event when its payload does not parse, the
\* parsed value otherwise; blocks after a malformed one are decoded as
\* usual, and a malformed block never makes streamChat return.
C3_MalformedIsolated ==
    LET outs == ClosedBlocks(rpos)
        data == DataBefore(outs)
    IN  /\ Len(delivered) = Len(data)
        /\ \A i \in 1..Len(data) :
              /\ data[i].kind = "bad" => delivered[i] = BadPayloadEvent
              /\ data[i].kind = "event" => delivered[i] = data[i].ev
        /\ sstate = "returned" => FirstDone(outs) <= Len(outs)

\* a malformed block was followed by a well-formed one, and both were delivered
C3_Witness ==
    /\ Len(delivered) = 2
    /\ delivered[1] = BadPayloadEvent
    /\ delivered[2].json # <<>>

\* what a block asks for when its payload is the first line that begins
\* with "data:", without that prefix and without one space after it
ExactOutcome(block) ==
    LET lines == Split(block, <<LF>>)
        hits == {i \in 1..Len(lines) : IsPrefixOf(DataPrefix, lines[i])}
    IN  IF hits = {} THEN Outcome("nodata", NoEvent)
        ELSE LET line == lines[CHOOSE i \in hits : \A j \in hits : i <= j]
                 rest == SubSeq(line, Len(DataPrefix) + 1, Len(line))
                 data == IF rest # <<>> /\ rest[1] = SP THEN Tail(rest) ELSE rest
             IN  IF data = DoneLiteral THEN Outcome("done", NoEvent)
                 ELSE IF JSONParse(data).ok
                      THEN Outcome("event", JSONParse(data).ev)
                      ELSE Outcome("bad", NoEvent)

\* C15: every block closed by a blank line in what has been read is decoded
\* from the payload that is its first "data:" line without the prefix and
\* without exactly one following space, nothing else removed: it ends the
\* stream, gives its event, gives the error event or gives nothing as that
\* payload says.
C15_PayloadExact ==
    LET parts == Split(TextOf(rpos), <<LF, LF>>) IN
    \A i \in 1..(Len(parts) - 1) : BlockOutcome(parts[i]) = ExactOutcome(parts[i])

\* C22: when the body has ended without a sentinel, every byte of the wire
\* has been read, no closed block asked to stop, the events delivered are
\* those of the blocks closed by a blank line, one per block with a data
\* line and in their order, and the text after the last blank line is
\* still in buffer: it gave no event and no error.
C22_ClosedBlocksOnly ==
    sstate = "ended" =>
        LET parts == Split(TextOf(Len(wire)), <<LF, LF>>)
            outs == ClosedBlocks(Len(wire))
            data == SelectSeq(outs, CarriesData)
        IN  /\ rpos = Len(wire)
            /\ \A i \in 1..Len(outs) : outs[i].kind # "done"
            /\ delivered = [i \in 1..Len(data) |->
                               IF data[i].kind = "bad" THEN BadPayloadEvent
                               ELSE data[i].ev]
            /\ buffer = parts[Len(parts)]

\* the server wrote one closed block and then "data: 2" without a blank line
C22_Witness ==
    /\ sstate = "ended"
    /\ delivered = <<JsonValue(<<"1">>)>>
    /\ buffer = DataPrefix \o <<SP, "2">>

-----------------------------------------------------------------------------
(* Properties of send and attachToolResult (Spec)                           *)

Active(s) == sends[s].pc # "idle"

\* the placeholder of send s, now and after the step
Ph(s) == PhGet(View(s))
PhNext(s) == PhGet([msgs |-> messages', idx |-> sends'[s].idx, obj |-> sends'[s].obj])

\* the step is a read of send s that leaves it reading; Looked by it:
Reads(s) ==
    /\ sends[s].pc = "read"
    /\ sends'[s].pc = "read"
    /\ Len(sends'[s].log) > Len(sends[s].log)
NewBlocks(s) == SubSeq(sends'[s].log, Len(sends[s].log) + 1, Len(sends'[s].log))

\* the step is a read of send s that applies exactly the event ev
Applies(s, ev) == Reads(s) /\ NewBlocks(s) = <<Outcome("event", ev)>>

TokensOnly(log) ==
    \A i \in 1..Len(log) : log[i].kind = "event" /\ log[i].ev.type = "token"

RECURSIVE Concatenated(_)
\* c1 + ... + cN for the token events of log
Concatenated(log) ==
    IF log = <<>> THEN "" ELSE Head(log).ev.content \o Concatenated(Tail(log))

\* C4: while the stream of a send has delivered only Token events, the
\* content of the send's placeholder is the concatenation of their contents
\* in arrival order.
C4_TokenOrder ==
    \A s \in Slots :
        sends[s].pc = "read" /\ TokensOnly(sends[s].log)
            => Ph(s).content = Concatenated(sends[s].log)

\* two different tokens have arrived, "b" before "a"
C4_Witness ==
    \E s \in Slots :
        /\ sends[s].pc = "read"
        /\ sends[s].log = <<Outcome("event", Token("b")), Outcome("event", Token("a"))>>
        /\ Ph(s).content = "ba"

IsAiMessage(o) == o.kind = "event" /\ o.ev.type = "message" /\ o.ev.m.type = "ai"

\* a content that holds nothing: the empty string, the empty list, null, or
\* no content field at all
EmptyContent(c) == c \in {Str(""), Arr(""), NullV, Undef}

\* C5: a read whose last event is an ai Message with non-empty content
\* leaves the placeholder's content equal to that content (its display text
\* when it is structured), whatever tokens had been accumulated; a read of a
\* single ai Message with empty content leaves the placeholder's content as
\* it was.
C5_AiReplaces ==
    [][\A s \in Slots :
          Reads(s) /\ IsAiMessage(NewBlocks(s)[Len(NewBlocks(s))]) =>
              LET c == NewBlocks(s)[Len(NewBlocks(s))].ev.m.content IN
              /\ ~EmptyContent(c) => PhNext(s).content = Display(c)
              /\ EmptyContent(c) /\ Len(NewBlocks(s)) = 1
                    => PhNext(s).content = Ph(s).content
      ]_vars

\* the final message arrived after a token and replaced it
C5_Witness ==
    \E s \in Slots :
        /\ sends[s].pc = "read"
        /\ sends[s].log = <<Outcome("event", Token("a")), Outcome("event", Message(AiFinal))>>
        /\ Ph(s).content = "F"

IsToolResult(ev) == ev.type = "message" /\ ev.m.type = "tool" /\ ev.m.tool_call_id # ""

\* the ai entries of the visible transcript whose toolCalls contain id
Callers(id) ==
    {i \in 1..Len(messages) : messages[i].role = "ai" /\ HasCall(messages[i], id)}

Newest(is) == CHOOSE i \in is : \A j \in is : j <= i

\* C6: applying a tool Message whose tool_call_id some ai entry's toolCalls
\* contain changes the transcript in one place only: toolResults[id] of the
\* ai entry with the highest index among those that contain the id.
C6_AttachNewest ==
    [][\A s \in Slots : \A ev \in {b.ev : b \in WireBlocks} :
          Applies(s, ev) /\ IsToolResult(ev) /\ Callers(ev.m.tool_call_id) # {} =>
              messages' = [messages EXCEPT
                              ![Newest(Callers(ev.m.tool_call_id))]
                                  .toolResults[ev.m.tool_call_id] = ev.m.content]
      ]_vars

\* the result for "x" sits in the placeholder, which also calls "y"; the
\* older ai entry that calls "x" has no result
C6_Witness ==
    \E i, j \in 1..Len(messages) :
        /\ i < j
        /\ messages[i].role = "ai" /\ HasCall(messages[i], "x")
        /\ messages[i].toolResults["x"] = Undef
        /\ messages[j].role = "ai" /\ HasCall(messages[j], "y")
        /\ messages[j].toolResults["x"] = Str("R")
        /\ messages[j].toolResults["y"] = Undef

\* C7: applying a tool Message whose tool_call_id no ai entry's toolCalls
\* contain appends one tool-role entry that carries the result and leaves
\* the entries before it as they were.
C7_OrphanKept ==
    [][\A s \in Slots : \A ev \in {b.ev : b \in WireBlocks} :
          Applies(s, ev) /\ IsToolResult(ev) /\ Callers(ev.m.tool_call_id) = {} =>
              /\ Len(messages') = Len(messages) + 1
              /\ SubSeq(messages', 1, Len(messages)) = messages
              /\ messages'[Len(messages')].role = "tool"
              /\ messages'[Len(messages')].content = Display(ev.m.content)
      ]_vars

\* a result nobody called for was appended behind the send's two entries
C7_Witness ==
    /\ Len(messages) = 3
    /\ messages[1].role = "human"
    /\ messages[2].role = "ai" /\ messages[2].toolCalls = <<>>
    /\ messages[3].role = "tool" /\ messages[3].content = "R"

\* C8: loading is true exactly while a send is between its acceptance and
\* its return; a send that runs has pushed one placeholder and not yet
\* cleared loading, a send that has returned cleared it once.
C8_BusySymmetry ==
    /\ loading = (\E s \in Slots : Active(s))
    /\ \A s \in Slots :
          /\ Active(s) => sends[s].made = 1 /\ sends[s].clears = 0
          /\ ~Active(s) => \/ sends[s].made = 0 /\ sends[s].clears = 0
                           \/ sends[s].made = 1 /\ sends[s].clears = 1

\* a send has returned after a malformed event and a failed read
C8_Witness ==
    /\ ~loading
    /\ \E i \in 1..Len(messages) :
          messages[i].content =
              "\n\n[Error] Bad SSE payload\n\n[Stream Failed] network error"

\* C9: once New has been clicked, every entry of the transcript comes from
\* a request made after the last click, and no send accepted before it is
\* still in flight (so the next send is accepted).
C9_ResetIsolation ==
    gen.resets > 0 =>
        /\ \A i \in 1..Len(messages) : messages[i].ep = gen.resets
        /\ \A s \in Slots : Active(s) => Ph(s).ep = gen.resets

\* a human entry is pushed by the step
PushesHuman ==
    /\ Len(messages') = Len(messages) + 2
    /\ messages'[Len(messages) + 1].role = "human"

\* C10: from a state in which the box holds no text after trimming, or a
\* send is in flight, no step starts a send: no human entry is pushed, no
\* idle activation starts, loading is not set; and at most one send is in
\* flight at any time.
C10_RejectedSendNoOp ==
    /\ [][(Trim(input) = <<>> \/ loading) =>
             /\ ~PushesHuman
             /\ \A s \in Slots : ~Active(s) => sends'[s].pc = "idle"
             /\ ~loading => ~loading'
         ]_vars
    /\ [](Cardinality({s \in Slots : Active(s)}) <= 1)

\* the user has typed a message while a stream is being read
C10_Witness ==
    /\ loading
    /\ Trim(input) # <<>>
    /\ \E s \in Slots : sends[s].pc = "read"

\* e.message of the failures a stream can have
FailureTexts == {"Stream failed: 500 ", "network error"}

\* C12: when the stream cannot be opened or a read fails, the step appends
\* "\n\n[Stream Failed] " and the failure's message to the content of the
\* send's placeholder and changes nothing else in the transcript (what the
\* events before had done stays), the send is over and loading is false;
\* and while no send is running nothing is applied to the transcript: it
\* changes only by being emptied.
C12_FailureNoted ==
    /\ [][\A s \in Slots :
             FetchFails(s) \/ StreamThrows(s) =>
                 /\ \E msg \in FailureTexts :
                       messages' =
                           IF sends[s].idx > 0
                           THEN [messages EXCEPT ![sends[s].idx].content =
                                                    @ \o "\n\n[Stream Failed] " \o msg]
                           ELSE messages
                 /\ sends'[s].pc = "idle"
                 /\ ~loading'
         ]_vars
    /\ [][(\A s \in Slots : sends[s].pc = "idle" /\ sends'[s].pc = "idle") =>
             messages' = messages \/ messages' = <<>>
         ]_vars

\* a read failed after the token "a" had been applied
C12_Witness ==
    /\ ~loading
    /\ \E i \in 1..Len(messages) :
          /\ messages[i].role = "ai"
          /\ messages[i].content = "a\n\n[Stream Failed] network error"

\* C18: applying a Message with role custom appends one custom-role entry
\* (with custom_data as content when that is a string) at the end of the
\* transcript and leaves every entry that was there, and the send's
\* placeholder, as they were.
C18_CustomStandsAlone ==
    [][\A s \in Slots : \A ev \in {b.ev : b \in WireBlocks} :
          Applies(s, ev) /\ ev.type = "message" /\ ev.m.type = "custom" =>
              /\ Len(messages') = Len(messages) + 1
              /\ SubSeq(messages', 1, Len(messages)) = messages
              /\ messages'[Len(messages')].role = "custom"
              /\ ev.m.custom_data.t = "string" =>
                    messages'[Len(messages')].content = ev.m.custom_data.s
              /\ messages'[Len(messages')].toolCalls = <<>>
              /\ PhNext(s) = Ph(s)
      ]_vars

\* a custom message arrived after the token "a"
C18_Witness ==
    /\ Len(messages) = 3
    /\ messages[1].role = "human"
    /\ messages[2].role = "ai" /\ messages[2].content = "a"
    /\ messages[3].role = "custom" /\ messages[3].content = "C"

IsToken(o) == o.kind = "event" /\ o.ev.type = "token"

\* the reads that carry a malformed block and no [DONE]
ErrorChunks ==
    {c \in Chunks : /\ \E i \in 1..Len(c) : c[i].kind = "bad"
                    /\ \A i \in 1..Len(c) : c[i].kind # "done"}

\* C19: a read whose first block makes an Error event appends
\* "\n\n[Error] " and the event's content to what the placeholder held, and
\* a token in the block right after it is appended behind the notice; a
\* read with an Error event and without [DONE] leaves the send reading,
\* with all its blocks looked at, and loading true.
C19_ErrorDoesNotStop ==
    /\ [][\A s \in Slots :
             Reads(s) /\ NewBlocks(s)[1].kind = "bad" =>
                 LET noted == Ph(s).content \o "\n\n[Error] " \o BadPayloadEvent.content IN
                 /\ Len(NewBlocks(s)) = 1 => PhNext(s).content = noted
                 /\ Len(NewBlocks(s)) = 2 /\ IsToken(NewBlocks(s)[2]) =>
                       PhNext(s).content = noted \o NewBlocks(s)[2].ev.content
         ]_vars
    /\ [][\A s \in Slots : \A chunk \in ErrorChunks :
             gen'.blocks = gen.blocks + Len(chunk) /\ StreamRead(s, chunk) =>
                 /\ sends'[s].pc = "read"
                 /\ sends'[s].log = sends[s].log \o chunk
                 /\ loading'
         ]_vars

\* a malformed block arrived after the token "a"; the send goes on
C19_Witness ==
    \E s \in Slots :
        /\ sends[s].pc = "read"
        /\ loading
        /\ sends[s].log = <<Outcome("event", Token("a")), Outcome("bad", NoEvent)>>
        /\ Ph(s).content = "a\n\n[Error] Bad SSE payload"

\* C20: when the body ends without [DONE] the send finishes as after a
\* success: the transcript is left as the events made it (no notice is
\* added), the send is over and loading is false.
C20_NaturalEnd ==
    [][\A s \in Slots :
          StreamEnd(s) => /\ messages' = messages
                          /\ sends'[s].pc = "idle"
                          /\ ~loading'
      ]_vars

\* a send is over whose stream was two tokens and then the end of the body
C20_Witness ==
    /\ ~loading
    /\ \A s \in Slots : sends[s].pc = "idle"
    /\ Len(messages) = 2
    /\ messages[1].role = "human"
    /\ messages[2].role = "ai" /\ messages[2].content = "ab"

-----------------------------------------------------------------------------
(* Frame of the events that concern the placeholder (SpecFrame)             *)

\* a block whose event the callback has no branch for
Unrecognised(o) ==
    /\ o.kind = "event"
    /\ \/ o.ev.type \notin {"token", "error", "message"}
       \/ o.ev.type = "message" /\ o.ev.m.type \notin {"ai", "tool", "custom", "null"}

\* a block that makes a Token, an Error or an ai Message event (the Error
\* event also for a Message whose content is null)
ForPlaceholder(o) ==
    \/ o.kind = "bad"
    \/ o.kind = "event" /\ o.ev.type = "token"
    \/ IsAiMessage(o)
    \/ o.kind = "event" /\ Throws(o.ev)

\* C23: a read that applies only Token, Error and ai Message events and
\* events the callback does not recognise keeps the length of the
\* transcript and every entry but the send's own placeholder, which stays
\* an ai entry with its toolResults; when all its events are unrecognised
\* the transcript and the placeholder are as before.
C23_PlaceholderOnly ==
    [][\A s \in Slots :
          Reads(s) /\ (\A i \in 1..Len(NewBlocks(s)) :
                          ForPlaceholder(NewBlocks(s)[i]) \/ Unrecognised(NewBlocks(s)[i])) =>
              /\ Len(messages') = Len(messages)
              /\ \A i \in 1..Len(messages) : i # sends[s].idx => messages'[i] = messages[i]
              /\ PhNext(s).role = "ai" /\ PhNext(s).toolResults = Ph(s).toolResults
              /\ (\A i \in 1..Len(NewBlocks(s)) : Unrecognised(NewBlocks(s)[i])) =>
                    messages' = messages /\ PhNext(s) = Ph(s)
      ]_vars

\* on a transcript loaded from history a send has applied a token and then
\* an event of unknown type: the history's entries are as loaded
C23_Witness ==
    \E s \in Slots :
        /\ sends[s].pc = "read"
        /\ sends[s].log = <<Outcome("event", Token("a")), Outcome("event", Ping)>>
        /\ Len(messages) = 5
        /\ SubSeq(messages, 1, 3) = Loaded(<<HumanQ, AiCalls, ToolX>>, 0)
        /\ messages[5].content = "a"

-----------------------------------------------------------------------------
(* Properties of the mount sequence (SpecMount)                             *)

\* the ai messages before position j of hist whose tool_calls contain id
CallsBefore(hist, j, id) ==
    {i \in 1..(j - 1) :
        /\ hist[i].type = "ai"
        /\ \E k \in 1..Len(hist[i].tool_calls) : hist[i].tool_calls[k] = id}

\* C11: when loadHistory completes on a history in which a tool message
\* with tool_call_id X follows an ai message whose tool_calls contain X, the
\* loaded transcript's entry for the newest such ai message before the tool
\* message holds the tool message's content under toolResults[X].
C11_HistoryAttached ==
    [][\A hist \in Histories :
          LoadHistory(hist) =>
              \A j \in 1..Len(hist) :
                  hist[j].type = "tool" /\ hist[j].tool_call_id # ""
                          /\ CallsBefore(hist, j, hist[j].tool_call_id) # {} =>
                      messages'[Newest(CallsBefore(hist, j, hist[j].tool_call_id))]
                          .toolResults[hist[j].tool_call_id] = hist[j].content
      ]_vars

\* every entry of the transcript is still there, at its index, after the step
KeepsEntries ==
    /\ Len(messages') >= Len(messages)
    /\ \A i \in 1..Len(messages) :
          /\ messages'[i].role = messages[i].role
          /\ messages'[i].ep = messages[i].ep
          /\ messages[i].role # "ai" => messages'[i] = messages[i]

\* C13: a step that is not a click on New keeps every entry of the
\* transcript at its index: entries are added at the end or mutated (only
\* ai entries are), never removed or reordered.
C13_AppendOnly == [][gen.resets' = gen.resets => KeepsEntries]_vars

\* ensureThreadId has run
Established == mount.pc # "init"

\* C14 as stated: once ensureThreadId has run, threadId is not empty and is
\* the value of the URL's thread_id parameter.
C14_ThreadIdIsQuery == Established => threadId # <<>> /\ threadId = routeQuery

\* C14, amended: once ensureThreadId has run, threadId is not empty and is
\* the URL's thread_id parameter with the white space around it removed;
\* ensureThreadId takes the parameter (trimmed) when it holds more than
\* white space and leaves the URL alone, otherwise it makes one identifier
\* and writes it to the URL; threadId changes in no other step but a click
\* on New.
C14_ThreadIdStable ==
    /\ [](Established => threadId # <<>> /\ threadId = Trim(routeQuery))
    /\ [][~Established /\ Established' =>
             IF Trim(routeQuery) # <<>>
             THEN threadId' = Trim(routeQuery) /\ routeQuery' = routeQuery
                  /\ gen'.uuids = gen.uuids
             ELSE threadId' = Uuid(gen.uuids + 1) /\ routeQuery' = threadId'
                  /\ gen'.uuids = gen.uuids + 1
         ]_vars
    /\ [][threadId' # threadId =>
             (~Established /\ Established') \/ gen.resets' = gen.resets + 1
         ]_vars

\* the page was entered with a padded thread_id and has finished mounting
C14_Witness ==
    /\ mount.pc = "done"
    /\ routeQuery = <<SP, "t", "1">>
    /\ threadId = <<"t", "1">>

\* C16: while a send is in flight (and New has not been clicked since it was
\* accepted) its placeholder is an entry of the visible transcript, with its
\* human entry right before it: no history load has replaced the transcript
\* under it.
C16_LoadExcludesSend ==
    \A s \in Slots :
        Active(s) /\ Ph(s).ep = gen.resets =>
            /\ sends[s].idx > 1
            /\ messages[sends[s].idx].role = "ai"
            /\ messages[sends[s].idx - 1].role = "human"

\* the ids under which e holds a result
ResultKeys(e) == {id \in ToolIds : e.toolResults[id] # Undef}

\* C17: when no send is in flight, every id under which an entry of the
\* transcript holds a tool result is the id of one of that entry's
\* toolCalls.
C17_ResultsAreCalled ==
    ~loading => \A i \in 1..Len(messages) :
                    \A id \in ResultKeys(messages[i]) : HasCall(messages[i], id)

\* C21: when loadHistory completes on a history of N messages the
\* transcript has exactly N entries, whatever it held before, and the i-th
\* has the role of the i-th message, its content as a string (the content
\* itself, or its JSON text when it is structured), its run id and its tool
\* calls; an empty list gives the empty transcript.
C21_HistoryProjected ==
    [][\A hist \in MountHistories :
          LoadHistory(hist) =>
              /\ Len(messages') = Len(hist)
              /\ \A i \in 1..Len(hist) :
                    /\ messages'[i].role = hist[i].type
                    /\ messages'[i].content =
                          (IF hist[i].content.t = "string" THEN hist[i].content.s
                           ELSE Stringify(hist[i].content))
                    /\ messages'[i].runId = hist[i].run_id
                    /\ messages'[i].toolCalls = hist[i].tool_calls
      ]_vars

\* the history of three messages replaced the two entries of a send made
\* before /history answered, and that send is still in flight
C21_Witness ==
    /\ mount.pc = "done"
    /\ Len(messages) = 3
    /\ messages[1].content = "q"
    /\ messages[2].toolCalls = <<"x", "y">> /\ messages[2].runId = "r2"
    /\ messages[3].role = "tool" /\ messages[3].content = "R"
    /\ \E s \in Slots : Active(s) /\ sends[s].idx = 0 /\ gen.resets = 0

====
